---- MODULE Spec2Model ----
(***************************************************************************)
(* Model of the chat / quiz component of the personal-finance dashboard    *)
(* (src/frontend/src/components/ChatInterface.jsx).                        *)
(*                                                                         *)
(* The component is a React function component.  Its state is the set of   *)
(* useState cells; every handler is a closure over the values of the       *)
(* render that created it.  A handler run by a user event is the one of    *)
(* the latest committed render, so it reads the current state.  A callback *)
(* handed to setTimeout keeps the values of the render in which it was     *)
(* scheduled: the delayed "next question" callback keeps currentQuiz, and  *)
(* the delayed summary callback calls the showQuizResults function of that *)
(* render, which keeps that render's quizScore.  Functional updates        *)
(* (setX(prev => ...)) are applied to the current state.                   *)
(*                                                                         *)
(* The source binds the name showQuizResults twice (the useState flag of   *)
(* line 28 and the function of line 206).  The model keeps the flag as the *)
(* variable showQuizResults and the function as the operators              *)
(* ResultMessage, FlagAfterTimer and QuizAfterTimer.                       *)
(*                                                                         *)
(* Strings are sequences of one-character strings, so that trim,           *)
(* toLowerCase and includes are computed as the code computes them.        *)
(*                                                                         *)
(* Three specifications share the handlers.  Spec is the component without *)
(* the message ids: the clock and the ids keep their initial value.        *)
(* SpecClock adds Date.now() and the id every new message takes from it.   *)
(* SpecAdvisor is the chat form alone, submitted with a wide set of texts. *)
(* SpecLive is Spec with the fairness of the microtask queue.              *)
(*                                                                         *)
(* The analytics page (src/unnamed/part_001, the AIAnalytics component)    *)
(* has its own state cells and its own specification, SpecAnalytics; the   *)
(* components share no state, so each specification leaves the cells of    *)
(* the other components at their initial value.                            *)
(*                                                                         *)
(* The authentication provider (src/unnamed/part_004, AuthProvider) calls  *)
(* the server through the axios instance of src/frontend/src/services/     *)
(* api.js, whose response interceptor refreshes the access token on a 401. *)
(* SpecAuth is the provider with that instance, against a server that may  *)
(* answer any request with 200, 401 or another error.                      *)
(***************************************************************************)
EXTENDS Integers, Sequences, FiniteSets, TLC

VARIABLES
    messages,          \* useState: the conversation log (line 8)
    isLoading,         \* useState: a send is in flight (line 25)
    currentQuiz,       \* useState: NoQuiz or [currentQuestion, answers] (line 26)
    quizScore,         \* useState: the score (line 27)
    showQuizResults,   \* useState: the results-panel flag (line 28)
    activeMode,        \* useState: chat, quiz, advice, savings, budget (line 29)
    timers,            \* the pending setTimeout callbacks, in scheduling order
    sendPc,            \* position of handleSendMessage: "idle" or "awaiting"
    sendText,          \* the text the suspended handleSendMessage will answer
    last,              \* the handler or callback that ran last, and its argument
    nQuick,            \* quick actions so far      (bounds the exploration)
    nSends,            \* accepted sends so far     (bounds the exploration)
    nEvents,           \* user events so far        (bounds the exploration)
    now,               \* the latest reading of Date.now()
    ids,               \* the id of every message of the log, in log order
    activeTab,         \* AIAnalytics useState: the tab shown (line 30)
    isAnalyzing,       \* AIAnalytics useState: a run is in flight (line 31)
    analysisResults,   \* AIAnalytics useState: NoResults or the results (line 32)
    mockUserData,      \* AIAnalytics: the user data of the page (line 46)
    toasts,            \* the notices raised through toast, oldest first
    analysisPc,        \* position of handleAnalysis: "idle" or the awaited kind
    user,              \* AuthProvider useState (line 15)
    isAuthenticated,   \* AuthProvider useState (line 16)
    loading,           \* AuthProvider useState (line 17)
    accessToken,       \* localStorage item accessToken
    refreshToken,      \* localStorage item refreshToken
    location,          \* window.location: "app", or "/login" once redirected
    call,              \* the request in flight through the axios instance
    authLast,          \* the provider step that ran last, and how it ended
    nCalls             \* login and register calls so far (bounds the exploration)

chatVars == <<messages, isLoading, currentQuiz, quizScore, showQuizResults,
              activeMode, timers, sendPc, sendText, last,
              nQuick, nSends, nEvents>>

analyticsVars == <<activeTab, isAnalyzing, analysisResults, mockUserData,
                   toasts, analysisPc>>

authVars == <<user, isAuthenticated, loading, accessToken, refreshToken,
              location, call, authLast, nCalls>>

vars == <<chatVars, now, ids, analyticsVars, authVars>>

----------------------------------------------------------------------------
(* Bounds of the exploration *)

MaxOption == 1     \* option indices clicked are 0..MaxOption
MaxQuick == 2      \* quick actions in one run
MaxSends == 1      \* accepted chat sends in one run
MaxPending == 2    \* setTimeout callbacks pending at once
MaxEvents == 7     \* user events (clicks and submits) in one run
MaxRuns == 2       \* analysis runs in one run of the analytics page
MaxCalls == 2      \* login and register calls in one run of the provider
MaxRefreshes == 2  \* token refreshes explored for one original request

----------------------------------------------------------------------------
(* The quiz bank *)

NoQuiz == [currentQuestion |-> -1, answers |-> <<>>]

\* quizQuestions[i].correct, for the 0-based question index i
QuizCorrect == <<0, 1, 1, 1, 1>>

QuizLength == Len(QuizCorrect)

\* question.correct; no question (undefined) outside the bank
Correct(i) == IF i \in 0 .. QuizLength - 1 THEN QuizCorrect[i + 1] ELSE -1

Options == 0 .. MaxOption

ActionIds == {"quiz", "advice", "savings", "budget"}

----------------------------------------------------------------------------
(* Strings *)

Blank == " "

LowerChar(c) ==
    CASE c = "A" -> "a"
      [] c = "B" -> "b"
      [] c = "C" -> "c"
      [] c = "D" -> "d"
      [] c = "E" -> "e"
      [] c = "F" -> "f"
      [] c = "G" -> "g"
      [] c = "H" -> "h"
      [] c = "I" -> "i"
      [] c = "J" -> "j"
      [] c = "K" -> "k"
      [] c = "L" -> "l"
      [] c = "M" -> "m"
      [] c = "N" -> "n"
      [] c = "O" -> "o"
      [] c = "P" -> "p"
      [] c = "Q" -> "q"
      [] c = "R" -> "r"
      [] c = "S" -> "s"
      [] c = "T" -> "t"
      [] c = "U" -> "u"
      [] c = "V" -> "v"
      [] c = "W" -> "w"
      [] c = "X" -> "x"
      [] c = "Y" -> "y"
      [] c = "Z" -> "z"
      [] OTHER -> c

ToLowerCaseMissing(s) == s

ToLowerCase(s) == [i \in 1 .. Len(s) |-> LowerChar(s[i])]

RECURSIVE TrimStart(_)
TrimStart(s) ==
    IF s # <<>> /\ Head(s) = Blank THEN TrimStart(Tail(s)) ELSE s

RECURSIVE TrimEnd(_)
TrimEnd(s) ==
    IF s # <<>> /\ s[Len(s)] = Blank THEN TrimEnd(SubSeq(s, 1, Len(s) - 1)) ELSE s

Trim(s) == TrimEnd(TrimStart(s))

IncludesAtStart(s, k) == Len(k) <= Len(s) /\ SubSeq(s, 1, Len(k)) = k

Includes(s, k) ==
    \E i \in 1 .. (Len(s) - Len(k) + 1) : SubSeq(s, i, i + Len(k) - 1) = k

KwSavings == <<"s", "a", "v", "i", "n", "g", "s">>
KwSave == <<"s", "a", "v", "e">>
KwBudget == <<"b", "u", "d", "g", "e", "t">>
KwSpending == <<"s", "p", "e", "n", "d", "i", "n", "g">>
KwInvest == <<"i", "n", "v", "e", "s", "t">>
KwInvestment == <<"i", "n", "v", "e", "s", "t", "m", "e", "n", "t">>
KwDebt == <<"d", "e", "b", "t">>
KwCredit == <<"c", "r", "e", "d", "i", "t">>
KwRetirement == <<"r", "e", "t", "i", "r", "e", "m", "e", "n", "t">>
Kw401k == <<"4", "0", "1", "k">>

GenerateAIResponseDebtFirst(message) ==
    LET lowerMessage == ToLowerCase(message) IN
    IF Includes(lowerMessage, KwDebt) \/ Includes(lowerMessage, KwCredit)
    THEN "debt"
    ELSE IF Includes(lowerMessage, KwSavings) \/ Includes(lowerMessage, KwSave)
    THEN "savings"
    ELSE IF Includes(lowerMessage, KwBudget) \/ Includes(lowerMessage, KwSpending)
    THEN "budgeting"
    ELSE IF Includes(lowerMessage, KwInvest) \/ Includes(lowerMessage, KwInvestment)
    THEN "investing"
    ELSE IF Includes(lowerMessage, KwRetirement) \/ Includes(lowerMessage, Kw401k)
    THEN "retirement"
    ELSE "fallback"

\* generateAIResponse: the topic of the template returned
GenerateAIResponse(message) ==
    LET lowerMessage == ToLowerCase(message) IN
    IF Includes(lowerMessage, KwSavings) \/ Includes(lowerMessage, KwSave)
    THEN "savings"
    ELSE IF Includes(lowerMessage, KwBudget) \/ Includes(lowerMessage, KwSpending)
    THEN "budgeting"
    ELSE IF Includes(lowerMessage, KwInvest) \/ Includes(lowerMessage, KwInvestment)
    THEN "investing"
    ELSE IF Includes(lowerMessage, KwDebt) \/ Includes(lowerMessage, KwCredit)
    THEN "debt"
    ELSE IF Includes(lowerMessage, KwRetirement) \/ Includes(lowerMessage, Kw401k)
    THEN "retirement"
    ELSE "fallback"

\* what the input box may hold when the form is submitted
Inputs ==
    { <<>>,
      <<" ">>,
      <<" ", "S", "a", "v", "e">>,
      <<"d", "e", "b", "t", " ">>,
      <<"h", "i">> }

----------------------------------------------------------------------------
(* Messages.  One record shape for every message; the fields a kind does    *)
(* not use keep their default.                                             *)
(*   kind "greeting"    n = 1 or 2                                         *)
(*   kind "quick"       tag = the quick action's reply                     *)
(*   kind "explanation" n = question id, opt = chosen option, correct     *)
(*   kind "question"    n = the number shown ("Question n: ...")           *)
(*   kind "summary"     n = score shown, pct = percentage, tag = tier      *)
(*   kind "user"        text = the trimmed input                           *)
(*   kind "reply"       tag = topic of the template                        *)

Msg(type, kind) ==
    [type |-> type, kind |-> kind, tag |-> "", n |-> 0, opt |-> 0,
     correct |-> FALSE, pct |-> 0, text |-> <<>>]

Greeting(n) == [Msg("bot", "greeting") EXCEPT !.n = n]

InitialMessages == <<Greeting(1), Greeting(2)>>

\* addMessage(text, sender, name): appends to the current log
AddMessageDroppingOldest(log, m) == Append(Tail(log), m)

AddMessage(log, m) == Append(log, m)

QuickMessage(actionId) == [Msg("bot", "quick") EXCEPT !.tag = actionId]

ExplanationAlwaysCorrect(i, answerIndex, isCorrect) ==
    [Msg("bot", "explanation") EXCEPT
        !.n = i + 1, !.opt = answerIndex, !.correct = TRUE]

ExplanationMessage(i, answerIndex, isCorrect) ==
    [Msg("bot", "explanation") EXCEPT
        !.n = i + 1, !.opt = answerIndex, !.correct = isCorrect]

QuestionMessage(i) == [Msg("bot", "question") EXCEPT !.n = i + 2]

\* showQuizResults (the function): the summary for the score it closed over
Percentage(score) == score * 20   \* (score / 5) * 100, exact in doubles

TierStrictlyAbove(percentage) ==
    IF percentage > 80 THEN "expert"
    ELSE IF percentage > 60 THEN "intermediate"
    ELSE "beginner"

Tier(percentage) ==
    IF percentage >= 80 THEN "expert"
    ELSE IF percentage >= 60 THEN "intermediate"
    ELSE "beginner"

ResultMessage(score) ==
    [Msg("bot", "summary") EXCEPT
        !.n = score, !.pct = Percentage(score), !.tag = Tier(Percentage(score))]

UserMessage(text) == [Msg("user", "user") EXCEPT !.text = text]

ReplyMessageByMode(topic) ==
    [Msg("bot", "reply") EXCEPT
        !.tag = IF activeMode = "savings" THEN "savings" ELSE topic]

ReplyMessage(topic) == [Msg("bot", "reply") EXCEPT !.tag = topic]

----------------------------------------------------------------------------
(* Timers: what a pending callback closed over *)

QuestionTimer(i) == [kind |-> "question", q |-> i, score |-> 0]

ResultsTimer(score) == [kind |-> "results", q |-> 0, score |-> score]

Ran(op, id, idx, accepted) ==
    [op |-> op, id |-> id, idx |-> idx, accepted |-> accepted, text |-> <<>>]

\* a submit of the chat form, with what the input box held
RanSend(input, accepted) == [Ran("send", "", 0, accepted) EXCEPT !.text = input]

----------------------------------------------------------------------------
(* The clock and the message ids *)

\* the ids of the two initial messages (id: 1, id: 2)
InitialIds == <<1, 2>>

\* a reading of Date.now(): later than the literal ids of the greetings
StartTime == Len(InitialIds) + 1

----------------------------------------------------------------------------
(* The analytics page: AIAnalytics (src/unnamed/part_001).  Amounts written *)
(* with cents in the source (1850.50) are kept in cents.                    *)

NoResults == [analysis_type |-> "none"]

Tabs == {"predictions", "insights", "analysis", "portfolio"}

\* mockUserData as the source writes it: the housing transaction, the
\* savings, the monthly contribution and the first portfolio asset
MockUserData ==
    [housing |-> -1200, current_savings |-> 15000,
     monthly_contribution |-> 800, portfolio |-> 8000]

\* the user data the page may be given: the source's, and others
UserDataValues ==
    { [MockUserData EXCEPT !.housing = h, !.current_savings = c, !.portfolio = a] :
        h \in {-1200, -900}, c \in {15000, 0}, a \in {8000, 1} }

\* the kinds handleAnalysis is called with: onClick of line 188
AnalysisTypes == {"comprehensive"}

BaseResults(analysisType, timestamp) ==
    [timestamp |-> timestamp, analysis_type |-> analysisType, user_id |-> "user_123"]

GenerateMockResultsFromUserData(analysisType, timestamp, data) ==
    IF analysisType = "comprehensive"
    THEN [timestamp |-> timestamp, analysis_type |-> analysisType,
          user_id |-> "user_123",
          ai_insights |-> <<"ai_spending_insight", "ai_savings_insight">>,
          spending_prediction |->
              [next_month_prediction |-> 185050, lower |-> 165025,
               upper |-> 205075, housing |-> -data.housing, food |-> 450,
               transportation |-> 200],
          savings_prediction |->
              [current_savings |-> data.current_savings,
               monthly_contribution |-> data.monthly_contribution,
               future_value_1_years |-> 25800, future_value_5_years |-> 65000]]
    ELSE BaseResults(analysisType, timestamp)

\* generateMockResults(analysisType); data is what the component holds and
\* the function could read
GenerateMockResults(analysisType, timestamp, data) ==
    IF analysisType = "comprehensive"
    THEN [timestamp |-> timestamp, analysis_type |-> analysisType,
          user_id |-> "user_123",
          ai_insights |-> <<"ai_spending_insight", "ai_savings_insight">>,
          spending_prediction |->
              [next_month_prediction |-> 185050, lower |-> 165025,
               upper |-> 205075, housing |-> 1200, food |-> 450,
               transportation |-> 200],
          savings_prediction |->
              [current_savings |-> 15000, monthly_contribution |-> 800,
               future_value_1_years |-> 25800, future_value_5_years |-> 65000]]
    ELSE BaseResults(analysisType, timestamp)

\* how the awaited step of handleAnalysis can settle.  The promise of line
\* 88 stands for the call of the analysis service ("Simulate API call"); the
\* try of lines 87-100 is written for both ways an awaited call can settle.
DelayOutcomes == {"resolved", "rejected"}

AnalyticsInit ==
    /\ activeTab = "predictions"
    /\ isAnalyzing = FALSE
    /\ analysisResults = NoResults
    /\ mockUserData = MockUserData
    /\ toasts = <<>>
    /\ analysisPc = "idle"

\* onClick={() => setActiveTab(tab.id)}
SetActiveTab(tab) ==
    /\ activeTab' = tab
    /\ UNCHANGED <<isAnalyzing, analysisResults, mockUserData, toasts, analysisPc>>

\* handleAnalysis up to its await; the button is disabled while analyzing
HandleAnalysis(analysisType) ==
    /\ ~isAnalyzing
    /\ analysisPc = "idle"
    /\ Len(toasts) < MaxRuns
    /\ isAnalyzing' = TRUE
    /\ analysisPc' = analysisType
    /\ UNCHANGED <<activeTab, analysisResults, mockUserData, toasts>>

ResultsAfterRunAlways(outcome, results, fresh) == fresh

\* setAnalysisResults(mockResults) is reached only past the await
ResultsAfterRun(outcome, results, fresh) ==
    IF outcome = "resolved" THEN fresh ELSE results

\* toast.success in the try, toast.error in the catch
ToastAfterRun(outcome) == IF outcome = "resolved" THEN "success" ELSE "error"

\* handleAnalysis from its await on: try, catch and finally
AnalysisResumes(outcome) ==
    /\ analysisPc # "idle"
    /\ now' = now + 1
    /\ analysisResults' =
           ResultsAfterRun(outcome, analysisResults,
                           GenerateMockResults(analysisPc, now', mockUserData))
    /\ toasts' = Append(toasts, ToastAfterRun(outcome))
    /\ isAnalyzing' = FALSE
    /\ analysisPc' = "idle"
    /\ UNCHANGED <<activeTab, mockUserData>>

----------------------------------------------------------------------------
(* The authentication provider and the axios instance it calls through.    *)
(* One request is in flight at a time.                                     *)

Null == "null"

\* what a destructuring of a missing property gives, and what
\* localStorage.setItem stores for it: the string "undefined"
Undefined == "undefined"

\* localStorage.getItem of an item that is not stored
NoToken == "none"

\* if (token), if (refreshToken): a stored string is truthy
Truthy(token) == token # NoToken

\* the response object axios resolves with: {data, status, headers, ...}
Response == "response"

NoCall == [caller |-> "none", pc |-> "idle", refreshes |-> 0, retries |-> 0]

Callers == {"profile", "login", "register"}

\* the answers of the server to a request, and to the refresh request
Statuses == {200, 401, 500}

RefreshOutcomes == {"refreshed", "failed"}

AuthRan(op, caller, outcome) == [op |-> op, caller |-> caller, outcome |-> outcome]

\* the page is loaded with what earlier visits left in localStorage
StoredTokens == {NoToken, "stored"}

AuthMounted(access, refresh) ==
    /\ user = Null
    /\ isAuthenticated = FALSE
    /\ loading = TRUE
    /\ accessToken = access
    /\ refreshToken = refresh
    /\ location = "app"
    /\ call = [NoCall EXCEPT !.pc = "mount"]
    /\ authLast = AuthRan("init", "none", "none")
    /\ nCalls = 0

AuthInit == AuthMounted(NoToken, NoToken)

\* api.get('/auth/me'), api.post('/auth/login'), api.post('/auth/register')
Request(caller) == [NoCall EXCEPT !.caller = caller, !.pc = "sent"]

\* useEffect of the provider: fetchUserProfile() when a token is stored
Mount ==
    /\ call.pc = "mount"
    /\ IF Truthy(accessToken)
       THEN /\ call' = Request("profile")
            /\ UNCHANGED loading
       ELSE /\ call' = NoCall
            /\ loading' = FALSE
    /\ authLast' = AuthRan("mount", "none", "none")
    /\ UNCHANGED <<user, isAuthenticated, accessToken, refreshToken, location, nCalls>>

\* login(email, password) and register(userData) up to their await
StartCall(caller) ==
    /\ caller \in {"login", "register"}
    /\ location = "app"
    /\ call.pc = "idle"
    /\ nCalls < MaxCalls
    /\ call' = Request(caller)
    /\ nCalls' = nCalls + 1
    /\ authLast' = AuthRan("call", caller, "pending")
    /\ UNCHANGED <<user, isAuthenticated, loading, accessToken, refreshToken, location>>

\* the four cells a logout writes
LoggedOut == [user |-> Null, isAuthenticated |-> FALSE,
              accessToken |-> NoToken, refreshToken |-> NoToken]

AuthState(u, a, access, refresh) ==
    [user |-> u, isAuthenticated |-> a, accessToken |-> access, refreshToken |-> refresh]

\* the try branch of the caller, run with the response
AuthAfterSuccess(caller, st) ==
    CASE caller = "profile" ->
             [st EXCEPT !.user = Response, !.isAuthenticated = TRUE]
      [] caller = "login" ->
             \* access_token, refresh_token and user are read off the response
             \* object itself, which has none of them
             [st EXCEPT !.accessToken = Undefined, !.refreshToken = Undefined,
                        !.user = Undefined, !.isAuthenticated = TRUE]
      [] OTHER -> st

AuthAfterFailureAlwaysLogout(caller, st) == LoggedOut

\* the catch branch of the caller: fetchUserProfile calls logout()
AuthAfterFailure(caller, st) ==
    IF caller = "profile" THEN LoggedOut ELSE st

\* the finally of fetchUserProfile
LoadingAfter(caller, flag) == IF caller = "profile" THEN FALSE ELSE flag

\* the caller resumes after its await, with the response or the error; op
\* names what handed it over: the answer itself or the failed refresh
Settle(op, outcome, st) ==
    LET after == IF outcome = "success"
                 THEN AuthAfterSuccess(call.caller, st)
                 ELSE AuthAfterFailure(call.caller, st)
    IN  /\ user' = after.user
        /\ isAuthenticated' = after.isAuthenticated
        /\ accessToken' = after.accessToken
        /\ refreshToken' = after.refreshToken
        /\ loading' = LoadingAfter(call.caller, loading)
        /\ call' = NoCall
        /\ authLast' = AuthRan(op, call.caller, outcome)

\* the interceptor refreshes and retries whenever a 401 meets a stored
\* refresh token: the retried request carries no mark of being a retry
RetryAfterRefresh(c) == TRUE

\* the server answers the request in flight: the response interceptor runs,
\* then the caller resumes unless the interceptor asks for a refresh
ServerResponds(status) ==
    /\ call.pc = "sent"
    /\ IF status = 200
       THEN /\ Settle("settle", "success", AuthState(user, isAuthenticated, accessToken, refreshToken))
            /\ UNCHANGED location
       ELSE IF status = 401 /\ Truthy(refreshToken) /\ RetryAfterRefresh(call)
       THEN /\ call.refreshes < MaxRefreshes
            /\ call' = [call EXCEPT !.pc = "refreshing"]
            /\ authLast' = AuthRan("intercept", call.caller, "pending")
            /\ UNCHANGED <<user, isAuthenticated, loading, accessToken, refreshToken, location>>
       ELSE /\ Settle("settle", "failure",
                      AuthState(user, isAuthenticated, accessToken, refreshToken))
            /\ UNCHANGED location
    /\ UNCHANGED nCalls

\* the refresh request is answered: the token is stored and the request
\* retried through the same instance, or the tokens are removed, the page
\* is sent to /login and the error goes on to the caller
RefreshResponds(outcome) ==
    /\ call.pc = "refreshing"
    /\ IF outcome = "refreshed"
       THEN /\ accessToken' = "refreshed"
            /\ call' = [call EXCEPT !.pc = "sent", !.refreshes = call.refreshes + 1,
                                    !.retries = call.retries + 1]
            /\ authLast' = AuthRan("refresh", call.caller, "refreshed")
            /\ UNCHANGED <<user, isAuthenticated, loading, refreshToken, location>>
       ELSE /\ Settle("refresh", "failure",
                      AuthState(user, isAuthenticated, NoToken, NoToken))
            /\ location' = "/login"
    /\ UNCHANGED nCalls

\* logout()
Logout ==
    /\ location = "app"
    /\ user' = LoggedOut.user
    /\ isAuthenticated' = LoggedOut.isAuthenticated
    /\ accessToken' = LoggedOut.accessToken
    /\ refreshToken' = LoggedOut.refreshToken
    /\ authLast' = AuthRan("logout", "none", "none")
    /\ UNCHANGED <<loading, location, call, nCalls>>

----------------------------------------------------------------------------
\* the chat component as mounted
ChatInit ==
    /\ messages = InitialMessages
    /\ isLoading = FALSE
    /\ currentQuiz = NoQuiz
    /\ quizScore = 0
    /\ showQuizResults = FALSE
    /\ activeMode = "chat"
    /\ timers = <<>>
    /\ sendPc = "idle"
    /\ sendText = <<>>
    /\ last = Ran("init", "", 0, FALSE)
    /\ nQuick = 0
    /\ nSends = 0
    /\ nEvents = 0
    /\ now = StartTime
    /\ ids = InitialIds

Init == ChatInit /\ AnalyticsInit /\ AuthInit

\* No handler or timer callback runs between the await of handleSendMessage
\* and its continuation: the awaited promise is already resolved, so the
\* continuation is a microtask of the same task.
Idle == sendPc = "idle"

\* a user event (a click or a submit) is dispatched
UserEvent == Idle /\ nEvents < MaxEvents /\ nEvents' = nEvents + 1

\* startQuiz: setCurrentQuiz({currentQuestion: 0, questions, answers: []})
StartQuizState == [currentQuestion |-> 0, answers |-> <<>>]

\* setCurrentQuiz(null), then startQuiz() in the case "quiz"
QuizAfterQuickAction(actionId) ==
    IF actionId = "quiz" THEN StartQuizState ELSE NoQuiz

ScoreKeptByQuickAction(actionId, score) == score

\* startQuiz: setQuizScore(0)
ScoreAfterQuickAction(actionId, score) ==
    IF actionId = "quiz" THEN 0 ELSE score

\* handleQuickAction(actionId), with the startQuiz it calls for "quiz"
HandleQuickAction(actionId) ==
    /\ UserEvent
    /\ nQuick < MaxQuick
    /\ activeMode' = actionId
    /\ currentQuiz' = QuizAfterQuickAction(actionId)
    /\ quizScore' = ScoreAfterQuickAction(actionId, quizScore)
    /\ showQuizResults' = FALSE
    /\ messages' = AddMessage(messages, QuickMessage(actionId))
    /\ last' = Ran("quick", actionId, 0, TRUE)
    /\ nQuick' = nQuick + 1
    /\ UNCHANGED <<isLoading, timers, sendPc, sendText, nSends>>

\* the "Take Quiz Again" button of the results panel
TakeQuizAgain ==
    /\ showQuizResults
    /\ HandleQuickAction("quiz")

----------------------------------------------------------------------------
(* handleQuizAnswer *)

\* const isCorrect = answerIndex === question.correct
IsCorrect(quiz, answerIndex) == answerIndex = Correct(quiz.currentQuestion)

ScoreAlwaysIncremented(score, isCorrect) == score + 1

\* if (isCorrect) setQuizScore(prev => prev + 1)
ScoreAfterAnswer(score, isCorrect) == IF isCorrect THEN score + 1 ELSE score

\* currentQuiz.currentQuestion < currentQuiz.questions.length - 1
HasNextQuestion(quiz) == quiz.currentQuestion < QuizLength - 1

\* setCurrentQuiz(prev => ({...prev, currentQuestion: prev.currentQuestion + 1}))
QuizAfterAnswer(quiz) ==
    IF HasNextQuestion(quiz)
    THEN [quiz EXCEPT !.currentQuestion = quiz.currentQuestion + 1]
    ELSE quiz

\* the callback handed to setTimeout, with the values it closes over: the
\* currentQuiz of this render, or (through showQuizResults) its quizScore
TimerAfterAnswer(quiz, score) ==
    IF HasNextQuestion(quiz)
    THEN QuestionTimer(quiz.currentQuestion)
    ELSE ResultsTimer(score)

AnswerAcceptedUnlessResultsShown(quiz) == ~showQuizResults

\* if (!currentQuiz) return
AnswerAccepted(quiz) == quiz # NoQuiz

HandleQuizAnswer(answerIndex) ==
    /\ UserEvent
    /\ IF AnswerAccepted(currentQuiz)
       THEN LET isCorrect == IsCorrect(currentQuiz, answerIndex) IN
            /\ Len(timers) < MaxPending
            /\ quizScore' = ScoreAfterAnswer(quizScore, isCorrect)
            /\ messages' = AddMessage(messages,
                   ExplanationMessage(currentQuiz.currentQuestion, answerIndex, isCorrect))
            /\ currentQuiz' = QuizAfterAnswer(currentQuiz)
            /\ timers' = Append(timers, TimerAfterAnswer(currentQuiz, quizScore))
            /\ last' = Ran("answer", "", answerIndex, TRUE)
       ELSE /\ last' = Ran("answer", "", answerIndex, FALSE)
            /\ UNCHANGED <<quizScore, messages, currentQuiz, timers>>
    /\ UNCHANGED <<isLoading, showQuizResults, activeMode, sendPc, sendText,
                   nQuick, nSends>>

----------------------------------------------------------------------------
(* The delayed callbacks.  Every delay is 2000 ms, so they run in the order *)
(* in which they were scheduled.                                            *)

FlagToggledByTimer(t, flag) == IF t.kind = "results" THEN ~flag ELSE flag

\* showQuizResults (the function) sets the flag and clears the quiz
FlagAfterTimer(t, flag) == IF t.kind = "results" THEN TRUE ELSE flag

QuizKeptByTimer(t, quiz) == quiz

QuizAfterTimer(t, quiz) == IF t.kind = "results" THEN NoQuiz ELSE quiz

MessageOfTimer(t) ==
    IF t.kind = "results" THEN ResultMessage(t.score) ELSE QuestionMessage(t.q)

TimerFires ==
    /\ Idle
    /\ timers # <<>>
    /\ LET t == Head(timers) IN
        /\ messages' = AddMessage(messages, MessageOfTimer(t))
        /\ showQuizResults' = FlagAfterTimer(t, showQuizResults)
        /\ currentQuiz' = QuizAfterTimer(t, currentQuiz)
        /\ last' = Ran("timer", t.kind, 0, TRUE)
    /\ timers' = Tail(timers)
    /\ UNCHANGED <<isLoading, quizScore, activeMode, sendPc, sendText,
                   nQuick, nSends, nEvents>>

----------------------------------------------------------------------------
(* handleSendMessage *)

SendAcceptedUntrimmed(input, busy) == input # <<>> /\ ~busy

\* if (!inputMessage.trim() || isLoading) return
SendAccepted(input, busy) == Trim(input) # <<>> /\ ~busy

HandleSendMessage(input) ==
    /\ UserEvent
    /\ IF SendAccepted(input, isLoading)
       THEN /\ nSends < MaxSends
            /\ messages' = Append(messages, UserMessage(Trim(input)))
            /\ isLoading' = TRUE
            /\ sendPc' = "awaiting"
            /\ sendText' = Trim(input)
            /\ last' = RanSend(input, TRUE)
            /\ nSends' = nSends + 1
       ELSE /\ last' = RanSend(input, FALSE)
            /\ UNCHANGED <<messages, isLoading, sendPc, sendText, nSends>>
    /\ UNCHANGED <<currentQuiz, quizScore, showQuizResults, activeMode, timers, nQuick>>

SendResumesStillLoading ==
    /\ sendPc = "awaiting"
    /\ messages' = AddMessage(messages, ReplyMessage(GenerateAIResponse(sendText)))
    /\ sendPc' = "idle"
    /\ sendText' = <<>>
    /\ last' = Ran("reply", "", 0, TRUE)
    /\ UNCHANGED <<isLoading, currentQuiz, quizScore, showQuizResults, activeMode,
                   timers, nQuick, nSends, nEvents>>

SendResumesResettingMode ==
    /\ sendPc = "awaiting"
    /\ messages' = AddMessage(messages, ReplyMessage(GenerateAIResponse(sendText)))
    /\ isLoading' = FALSE
    /\ activeMode' = "chat"
    /\ sendPc' = "idle"
    /\ sendText' = <<>>
    /\ last' = Ran("reply", "", 0, TRUE)
    /\ UNCHANGED <<currentQuiz, quizScore, showQuizResults, timers,
                   nQuick, nSends, nEvents>>

\* the continuation after await generateAIResponse(...), and the finally
SendResumes ==
    /\ sendPc = "awaiting"
    /\ messages' = AddMessage(messages, ReplyMessage(GenerateAIResponse(sendText)))
    /\ isLoading' = FALSE
    /\ sendPc' = "idle"
    /\ sendText' = <<>>
    /\ last' = Ran("reply", "", 0, TRUE)
    /\ UNCHANGED <<currentQuiz, quizScore, showQuizResults, activeMode, timers,
                   nQuick, nSends, nEvents>>

----------------------------------------------------------------------------
(* resetChat *)

ResetChatKeepingQuiz ==
    /\ UserEvent
    /\ messages' = InitialMessages
    /\ showQuizResults' = FALSE
    /\ activeMode' = "chat"
    /\ last' = Ran("reset", "", 0, TRUE)
    /\ UNCHANGED <<isLoading, currentQuiz, quizScore, timers, sendPc, sendText,
                   nQuick, nSends>>

ResetChatCancellingTimers ==
    /\ UserEvent
    /\ messages' = InitialMessages
    /\ currentQuiz' = NoQuiz
    /\ showQuizResults' = FALSE
    /\ activeMode' = "chat"
    /\ timers' = <<>>
    /\ last' = Ran("reset", "", 0, TRUE)
    /\ UNCHANGED <<isLoading, quizScore, sendPc, sendText, nQuick, nSends>>

ResetChat ==
    /\ UserEvent
    /\ messages' = InitialMessages
    /\ currentQuiz' = NoQuiz
    /\ showQuizResults' = FALSE
    /\ activeMode' = "chat"
    /\ last' = Ran("reset", "", 0, TRUE)
    /\ UNCHANGED <<isLoading, quizScore, timers, sendPc, sendText,
                   nQuick, nSends>>

----------------------------------------------------------------------------
QuickAction == \E actionId \in ActionIds : HandleQuickAction(actionId)

QuizAnswer == \E answerIndex \in Options : HandleQuizAnswer(answerIndex)

SendMessage == \E input \in Inputs : HandleSendMessage(input)

\* the step is one of the chat component: the other components stand still
OthersIdle == UNCHANGED <<analyticsVars, authVars>>

\* the step leaves the ids out
Untimed == UNCHANGED <<now, ids>> /\ OthersIdle

Next ==
    \/ QuickAction /\ Untimed
    \/ TakeQuizAgain /\ Untimed
    \/ QuizAnswer /\ Untimed
    \/ TimerFires /\ Untimed
    \/ SendMessage /\ Untimed
    \/ SendResumes /\ Untimed
    \/ ResetChat /\ Untimed

Spec == Init /\ [][Next]_vars

\* The continuation of an await on a resolved promise is a microtask: the
\* event loop runs it as soon as the handler returns.
SpecLive == Spec /\ WF_vars(SendResumes /\ Untimed)

----------------------------------------------------------------------------
(* The component with its clock.  Every new message takes its id from      *)
(* Date.now() (lines 228 and 281); resetChat writes the literal ids back.   *)
(* Two tasks (a click, a submit, a timer callback) are taken to read        *)
(* different milliseconds.  The continuation of handleSendMessage runs in   *)
(* the task of the submit, microseconds after it: it reads the same         *)
(* millisecond as the submit, or the next one.                              *)

\* the clock read `passed` ms after the last reading, and the id it gives
Stamp(passed) ==
    /\ now' = now + passed
    /\ ids' = IF last'.op = "reset" THEN InitialIds
              ELSE IF Len(messages') > Len(messages) THEN Append(ids, now')
              ELSE ids
    /\ OthersIdle

\* the continuation of handleSendMessage reads the clock
ResumeStamp == \E passed \in 0 .. 1 : Stamp(passed)

NextClock ==
    \/ QuickAction /\ Stamp(1)
    \/ TakeQuizAgain /\ Stamp(1)
    \/ QuizAnswer /\ Stamp(1)
    \/ TimerFires /\ Stamp(1)
    \/ SendMessage /\ Stamp(1)
    \/ SendResumes /\ ResumeStamp
    \/ ResetChat /\ Stamp(1)

SpecClock == Init /\ [][NextClock]_vars

----------------------------------------------------------------------------
(* The chat form alone, submitted with texts put together from fragments:   *)
(* the keywords, keywords in other letter cases, and pieces of other text.  *)

MaxFragments == 2   \* fragments in one submitted text

FrSaveUpper == <<"S", "A", "V", "E">>
FrBudgetCapital == <<"B", "u", "d", "g", "e", "t">>
FrDebtUpper == <<"D", "E", "B", "T">>
FrBlank == <<" ">>
FrUn == <<"u", "n">>
FrD == <<"d">>
FrHi == <<"h", "i">>
FrSaveForAHouse ==
    <<"I", " ", "w", "a", "n", "t", " ", "t", "o", " ", "s",
     "a", "v", "e", " ", "f", "o", "r", " ", "a", " ", "h", "o", "u", "s", "e">>

Keywords ==
    {KwSavings, KwSave, KwBudget, KwSpending, KwInvest, KwInvestment,
     KwDebt, KwCredit, KwRetirement, Kw401k}

Fragments ==
    Keywords \cup {FrSaveUpper, FrBudgetCapital, FrDebtUpper,
                   FrBlank, FrUn, FrD, FrHi,
                   FrSaveForAHouse}

\* the texts of at most n fragments
RECURSIVE TextsOf(_)
TextsOf(n) ==
    IF n = 0 THEN {<<>>}
    ELSE LET shorter == TextsOf(n - 1) IN
         shorter \cup {t \o f : t \in shorter, f \in Fragments}

AdvisorInputs == TextsOf(MaxFragments)

AdvisorSend ==
    /\ nSends < MaxSends
    /\ \E input \in AdvisorInputs : HandleSendMessage(input)

NextAdvisor ==
    \/ AdvisorSend /\ Untimed
    \/ SendResumes /\ Untimed

SpecAdvisor == Init /\ [][NextAdvisor]_vars

----------------------------------------------------------------------------
(* The analytics page on its own, for any user data *)

InitAnalytics ==
    /\ ChatInit
    /\ AuthInit
    /\ activeTab = "predictions"
    /\ isAnalyzing = FALSE
    /\ analysisResults = NoResults
    /\ mockUserData \in UserDataValues
    /\ toasts = <<>>
    /\ analysisPc = "idle"

NextAnalytics ==
    \/ \E tab \in Tabs : SetActiveTab(tab) /\ UNCHANGED <<chatVars, now, ids, authVars>>
    \/ \E analysisType \in AnalysisTypes :
           HandleAnalysis(analysisType) /\ UNCHANGED <<chatVars, now, ids, authVars>>
    \/ \E outcome \in DelayOutcomes :
           AnalysisResumes(outcome) /\ UNCHANGED <<chatVars, ids, authVars>>

SpecAnalytics == InitAnalytics /\ [][NextAnalytics]_vars

----------------------------------------------------------------------------
(* The authentication provider on its own, loaded with any stored tokens *)

InitAuth ==
    /\ ChatInit
    /\ AnalyticsInit
    /\ \E access \in StoredTokens, refresh \in StoredTokens :
           AuthMounted(access, refresh)

ElsewhereIdle == UNCHANGED <<chatVars, now, ids, analyticsVars>>

NextAuth ==
    \/ Mount /\ ElsewhereIdle
    \/ \E caller \in {"login", "register"} : StartCall(caller) /\ ElsewhereIdle
    \/ \E status \in Statuses : ServerResponds(status) /\ ElsewhereIdle
    \/ \E outcome \in RefreshOutcomes : RefreshResponds(outcome) /\ ElsewhereIdle
    \/ Logout /\ ElsewhereIdle

SpecAuth == InitAuth /\ [][NextAuth]_vars

----------------------------------------------------------------------------
(* What the properties below read off a state *)

LastMessage == messages[Len(messages)]

\* the quiz panel is gone and the results panel is shown
Completed == showQuizResults /\ currentQuiz = NoQuiz

\* the log positions at which a quiz session was started
QuizStarts ==
    {i \in 1 .. Len(messages) :
        messages[i].kind = "quick" /\ messages[i].tag = "quiz"}

\* where the latest session starts in the log, 0 when the log shows none
SessionStart ==
    IF QuizStarts = {} THEN 0
    ELSE CHOOSE i \in QuizStarts : \A j \in QuizStarts : j <= i

\* the explanations of the latest session, one per accepted answer
SessionExplanations ==
    {i \in (SessionStart + 1) .. Len(messages) : messages[i].kind = "explanation"}

\* how many of them answered with the correct index
SessionCorrect == Cardinality({i \in SessionExplanations : messages[i].correct})

\* the step is a call of handleQuizAnswer made while a quiz is in progress
AnswerStep == last'.op = "answer" /\ currentQuiz # NoQuiz

----------------------------------------------------------------------------
(* C1: in every reachable state the question index is between 0 and 5 and   *)
(* the score is between 0 and 5, 5 being the number of quiz questions.      *)
C1_IndexAndScoreInRange ==
    /\ currentQuiz # NoQuiz => currentQuiz.currentQuestion \in 0 .. QuizLength
    /\ quizScore \in 0 .. QuizLength

(* C2: when the summary of a session of five answers is emitted, the score  *)
(* it reports is the number of answers of that session given with the       *)
(* correct index; five correct answers give 5/5 (100%) and the expert tier. *)
C2_SummaryReportsSessionScore ==
    ( /\ last.op = "timer"
      /\ last.id = "results"
      /\ SessionStart > 0
      /\ Cardinality(SessionExplanations) = QuizLength )
    => /\ LastMessage.kind = "summary"
       /\ LastMessage.n = SessionCorrect
       /\ SessionCorrect = QuizLength =>
              LastMessage.pct = 100 /\ LastMessage.tag = "expert"

(* C3: right after the fifth accepted answer of a session the session is    *)
(* Completed (no active quiz, so no further answer is accepted) and the     *)
(* score is between 0 and 5.                                                *)
C3_CompletedAfterFiveAnswers ==
    ( /\ last.op = "answer"
      /\ last.accepted
      /\ SessionStart > 0
      /\ Cardinality(SessionExplanations) = QuizLength )
    => /\ currentQuiz = NoQuiz
       /\ quizScore \in 0 .. QuizLength

(* C4: an answer given while a quiz is in progress adds exactly 1 to the    *)
(* score when it is the current question's correct index, and leaves the    *)
(* score unchanged otherwise.                                               *)
C4_ScoreCountsCorrectAnswers ==
    [][ AnswerStep =>
          quizScore' = quizScore +
              (IF last'.idx = QuizCorrect[currentQuiz.currentQuestion + 1]
               THEN 1 ELSE 0) ]_vars

C4_Witness ==
    /\ last.op = "answer"
    /\ last.accepted
    /\ quizScore = 1
    /\ LastMessage.kind = "explanation"
    /\ LastMessage.n = 2
    /\ ~LastMessage.correct

(* C5: the tier of every summary depends on percentage = score/5*100 only:  *)
(* expert from 80, intermediate from 60 and below 80, beginner below 60; so *)
(* a score of 4 or 5 is expert, 3 intermediate, 0 to 2 beginner.            *)
C5_TierByPercentage ==
    \A i \in 1 .. Len(messages) :
        messages[i].kind = "summary" =>
            LET m == messages[i] IN
            /\ m.pct = m.n * 20
            /\ (m.pct >= 80) = (m.tag = "expert")
            /\ (m.pct >= 60 /\ m.pct < 80) = (m.tag = "intermediate")
            /\ (m.pct < 60) = (m.tag = "beginner")
            /\ m.n \in {4, 5} => m.tag = "expert"
            /\ m.n = 3 => m.tag = "intermediate"
            /\ m.n \in 0 .. 2 => m.tag = "beginner"

C5_Witness ==
    \E i \in 1 .. Len(messages) :
        /\ messages[i].kind = "summary"
        /\ messages[i].n = 3
        /\ messages[i].pct = 60
        /\ messages[i].tag = "intermediate"

(* C6: right after a quiz is started (the quiz quick action or "Take Quiz   *)
(* Again") the session is at question index 0 with score 0 and the results  *)
(* panel hidden, whatever the previous session's score was.                 *)
C6_StartQuizResets ==
    (last.op = "quick" /\ last.id = "quiz") =>
        /\ currentQuiz # NoQuiz
        /\ currentQuiz.currentQuestion = 0
        /\ quizScore = 0
        /\ ~showQuizResults

C6_Witness ==
    /\ last.op = "quick"
    /\ last.id = "quiz"
    /\ currentQuiz # NoQuiz
    /\ quizScore = 0
    /\ \E i \in 1 .. Len(messages) :
          messages[i].kind = "summary" /\ messages[i].n >= 3

(* C7: an answer at question index i with i + 1 < 5 moves the session to    *)
(* question i + 1 and schedules the message "Question i + 2"; an answer at  *)
(* the last index completes the session with its score, which the summary   *)
(* it schedules reports.                                                    *)
C7_AnswerAdvancesOrCompletes ==
    [][ AnswerStep =>
          LET i == currentQuiz.currentQuestion
              t == timers'[Len(timers')]
          IN  /\ Len(timers') = Len(timers) + 1
              /\ IF i + 1 < QuizLength
                 THEN /\ currentQuiz' = [currentQuiz EXCEPT !.currentQuestion = i + 1]
                      /\ t.kind = "question"
                      /\ MessageOfTimer(t).kind = "question"
                      /\ MessageOfTimer(t).n = i + 2
                 ELSE /\ t.kind = "results"
                      /\ MessageOfTimer(t).kind = "summary"
                      /\ MessageOfTimer(t).n = quizScore' ]_vars

(* C8 as claimed: once Completed, the session stays Completed until a quiz  *)
(* is started again; no other step takes it out of Completed.               *)
C8_CompletedUntilStartQuiz ==
    [][ Completed =>
          \/ Completed'
          \/ (last'.op = "quick" /\ last'.id = "quiz") ]_vars

(* C8 as amended: once Completed, the session stays Completed until a quick *)
(* action (the quiz one starts a quiz) or resetChat runs; no chat send,     *)
(* rejected answer or delayed callback takes it out of Completed.           *)
C8_CompletedUntilQuickActionOrReset ==
    [][ Completed =>
          \/ Completed'
          \/ last'.op \in {"quick", "reset"} ]_vars

C8_Witness ==
    /\ Completed
    /\ last.op = "reply"

(* C9: a call of handleQuizAnswer made while no quiz is active changes      *)
(* neither the score, the question index, the log nor the pending timers.   *)
C9_AnswerIgnoredWithoutQuiz ==
    [][ (last'.op = "answer" /\ currentQuiz = NoQuiz) =>
          UNCHANGED <<quizScore, currentQuiz, messages, timers>> ]_vars

C9_Witness ==
    /\ last.op = "answer"
    /\ ~last.accepted
    /\ Completed
    /\ quizScore >= 1

(* C10: every accepted answer appends exactly one message in the same step, *)
(* the explanation, marked correct if and only if the chosen index is the   *)
(* current question's correct index.                                        *)
C10_OneExplanationPerAnswer ==
    [][ AnswerStep =>
          /\ Len(messages') = Len(messages) + 1
          /\ SubSeq(messages', 1, Len(messages)) = messages
          /\ LET m == messages'[Len(messages')] IN
                /\ m.type = "bot"
                /\ m.kind = "explanation"
                /\ m.n = currentQuiz.currentQuestion + 1
                /\ m.opt = last'.idx
                /\ m.correct = (last'.idx = QuizCorrect[currentQuiz.currentQuestion + 1]) ]_vars

C10_Witness ==
    /\ last.op = "answer"
    /\ last.accepted
    /\ LastMessage.kind = "explanation"
    /\ LastMessage.n = 2
    /\ LastMessage.opt = 1
    /\ LastMessage.correct

(* C18: in every reachable log the message ids are pairwise distinct and    *)
(* strictly increasing with the position, also for two messages created     *)
(* within the same millisecond (a user message and its reply).              *)
C18_IdsStrictlyIncreasing ==
    \A i, j \in 1 .. Len(ids) : i < j => ids[i] < ids[j]

----------------------------------------------------------------------------
(* What the advisor properties read off a state *)

\* the rules in declaration order, and the keywords of each
RuleOrder == <<"savings", "budgeting", "investing", "debt", "retirement">>

RuleKeywords(topic) ==
    CASE topic = "savings" -> {KwSavings, KwSave}
      [] topic = "budgeting" -> {KwBudget, KwSpending}
      [] topic = "investing" -> {KwInvest, KwInvestment}
      [] topic = "debt" -> {KwDebt, KwCredit}
      [] topic = "retirement" -> {KwRetirement, Kw401k}
      [] OTHER -> {}

\* the position of a topic in the declaration order, the fallback last
RuleIndex(topic) ==
    IF \E a \in DOMAIN RuleOrder : RuleOrder[a] = topic
    THEN CHOOSE a \in DOMAIN RuleOrder : RuleOrder[a] = topic
    ELSE Len(RuleOrder) + 1

\* keyword k occurs in text t at some position, in whatever letter case
OccursIgnoringCase(t, k) ==
    \E p \in 0 .. (Len(t) - Len(k)) :
        \A j \in 1 .. Len(k) : LowerChar(t[p + j]) = k[j]

RuleMatches(t, topic) == \E k \in RuleKeywords(topic) : OccursIgnoringCase(t, k)

\* the replies of the log; each follows the user message it answers
ReplyPositions == {i \in 2 .. Len(messages) : messages[i].kind = "reply"}

AskedText(i) == messages[i - 1].text

----------------------------------------------------------------------------
(* C11: the reply to a message that contains a known keyword is the         *)
(* template of a topic whose keyword it contains, the reply to a message    *)
(* that contains none is the fallback template, and "I want to save for a   *)
(* house" is answered with the savings template.                            *)
C11_KeywordSelectsTemplate ==
    \A i \in ReplyPositions :
        LET t == AskedText(i)
            r == messages[i].tag
        IN  /\ messages[i - 1].kind = "user"
            /\ (\E a \in DOMAIN RuleOrder : RuleMatches(t, RuleOrder[a]))
                   => (r # "fallback" /\ RuleMatches(t, r))
            /\ (\A a \in DOMAIN RuleOrder : ~RuleMatches(t, RuleOrder[a]))
                   => r = "fallback"
            /\ t = FrSaveForAHouse => r = "savings"

C11_Witness ==
    \E i \in ReplyPositions :
        AskedText(i) = FrSaveForAHouse /\ messages[i].tag = "savings"

(* C12: when a message contains keywords of several rules, the reply is the *)
(* template of the earliest of them in the order savings, budgeting,        *)
(* investing, debt, retirement, wherever the keywords stand in the message. *)
C12_FirstRuleWins ==
    \A i \in ReplyPositions :
        \A a \in DOMAIN RuleOrder :
            ( /\ RuleMatches(AskedText(i), RuleOrder[a])
              /\ \A b \in 1 .. (a - 1) : ~RuleMatches(AskedText(i), RuleOrder[b]) )
            => messages[i].tag = RuleOrder[a]

C12_Witness ==
    \E i \in ReplyPositions :
        AskedText(i) = KwDebt \o KwSave /\ messages[i].tag = "savings"

(* C13: a keyword that occurs anywhere in the message, inside a longer word *)
(* or in another letter case, selects its rule (or an earlier rule, by the  *)
(* order of C12): the reply is never that of a later rule or the fallback.  *)
C13_SubstringInAnyCase ==
    \A i \in ReplyPositions :
        \A a \in DOMAIN RuleOrder :
            \A k \in RuleKeywords(RuleOrder[a]) :
                OccursIgnoringCase(AskedText(i), k)
                    => RuleIndex(messages[i].tag) <= a

C13_Witness ==
    \E i \in ReplyPositions :
        AskedText(i) = FrUn \o FrSaveUpper /\ messages[i].tag = "savings"

C15_BlankSendIsNoOp ==
    [][ ( /\ last'.op = "send"
          /\ \A i \in 1 .. Len(last'.text) : last'.text[i] = " " )
        => UNCHANGED <<messages, isLoading, currentQuiz, quizScore,
                       showQuizResults, activeMode, timers, sendPc, sendText>> ]_vars

C15_Witness ==
    /\ last.op = "send"
    /\ last.text = <<" ">>
    /\ ~last.accepted
    /\ currentQuiz # NoQuiz
    /\ timers # <<>>

(* C16: a chat send, from the submit to the reply, changes neither the quiz *)
(* session (active quiz, question index, score), the results-panel flag nor *)
(* the active mode.                                                         *)
C16_SendKeepsQuizAndMode ==
    [][ last'.op \in {"send", "reply"}
        => UNCHANGED <<currentQuiz, quizScore, showQuizResults, activeMode>> ]_vars

C16_Witness ==
    /\ last.op = "reply"
    /\ activeMode = "quiz"
    /\ currentQuiz # NoQuiz
    /\ currentQuiz.currentQuestion = 2
    /\ quizScore >= 1

(* C17: every step other than resetChat keeps the messages of the log, in   *)
(* their order, and only adds messages at the end.                          *)
C17_LogAppendOnly ==
    [][ last'.op # "reset"
        => /\ Len(messages') >= Len(messages)
           /\ SubSeq(messages', 1, Len(messages)) = messages ]_vars

C17_Witness ==
    /\ last.op = "timer"
    /\ LastMessage.kind = "question"
    /\ Len(messages) >= 6
    /\ nSends = 1

(* C19: right after resetChat the log is exactly the two greetings, no quiz *)
(* is active, the results panel is hidden and the mode is chat.             *)
C19_ResetDestroysSession ==
    last.op = "reset"
    => /\ Len(messages) = 2
       /\ \A i \in 1 .. 2 :
             /\ messages[i].type = "bot"
             /\ messages[i].kind = "greeting"
             /\ messages[i].n = i
       /\ currentQuiz = NoQuiz
       /\ ~showQuizResults
       /\ activeMode = "chat"

C19_Witness ==
    /\ last.op = "reset"
    /\ quizScore >= 2
    /\ timers # <<>>
    /\ nSends = 1

(* C20: resetChat cancels no delayed callback, and a callback appends its   *)
(* message whatever the log is; so a callback left pending by a quiz answer *)
(* can append the next question or the summary to the freshly reset log.    *)
C20_ResetKeepsCallbacks ==
    [][ /\ last'.op = "reset" => timers' = timers
        /\ last'.op = "timer"
               => /\ timers' = Tail(timers)
                  /\ Len(messages') = Len(messages) + 1
                  /\ LastMessage'.kind \in {"question", "summary"} ]_vars

\* the reset log with nothing but a stale callback's message after it
C20_Witness ==
    /\ last.op = "timer"
    /\ Len(messages) = 3
    /\ messages[1].kind = "greeting"
    /\ messages[2].kind = "greeting"
    /\ messages[3].kind \in {"question", "summary"}

----------------------------------------------------------------------------
(* What the session properties read off the log *)

\* the explanations of the latest session in log order: the k-th is the
\* position of the explanation of the k-th accepted answer
RECURSIVE PositionsIn(_, _)
PositionsIn(from, kind) ==
    IF from > Len(messages) THEN <<>>
    ELSE IF messages[from].kind = kind
         THEN <<from>> \o PositionsIn(from + 1, kind)
         ELSE PositionsIn(from + 1, kind)

SessionAnswers == PositionsIn(SessionStart + 1, "explanation")

\* the summaries appended since the latest session was started
SessionSummaries ==
    {i \in (SessionStart + 1) .. Len(messages) : messages[i].kind = "summary"}

\* the latest session has had its last question answered
SessionFinalAnswered ==
    \E i \in SessionExplanations : messages[i].n = QuizLength

(* C21: while a quiz session is active its answers sequence has one element *)
(* per accepted answer of the session, the j-th being the option chosen at  *)
(* the j-th accepted answer.                                                *)
C21_AnswersRecordChoices ==
    (currentQuiz # NoQuiz /\ SessionStart > 0)
    => /\ Len(currentQuiz.answers) = Len(SessionAnswers)
       /\ \A j \in 1 .. Len(SessionAnswers) :
             currentQuiz.answers[j] = messages[SessionAnswers[j]].opt

(* C24: between a start of the quiz and the next start or reset at most one *)
(* summary is appended to the log.                                          *)
C24_OneSummaryPerSession ==
    SessionStart > 0 => Cardinality(SessionSummaries) <= 1

(* C25: an active quiz session is ended only by resetChat, by a quick       *)
(* action, or by the summary callback of its own final answer: no callback  *)
(* clears the quiz of a session whose last question has not been answered.  *)
C25_SessionEndedByOwnFinalAnswer ==
    [][ (currentQuiz # NoQuiz /\ currentQuiz' = NoQuiz)
        => \/ last'.op \in {"reset", "quick"}
           \/ (last'.op = "timer" /\ SessionFinalAnswered) ]_vars

(* C26: within a session the message "Question k" (k from 2 to 5) is in the *)
(* log before the explanation of the answer to question k.                  *)
C26_QuestionBeforeItsExplanation ==
    \A i \in SessionExplanations :
        messages[i].n >= 2
        => \E j \in (SessionStart + 1) .. (i - 1) :
               messages[j].kind = "question" /\ messages[j].n = messages[i].n

(* C28: an active quiz and the results-panel flag never hold together.      *)
C28_QuizAndResultsExclusive == ~(currentQuiz # NoQuiz /\ showQuizResults)

\* the summary callback of an abandoned session has run against a new one
C28_Witness ==
    /\ last.op = "timer"
    /\ last.id = "results"
    /\ showQuizResults
    /\ currentQuiz = NoQuiz
    /\ nQuick = 2
    /\ ~SessionFinalAnswered

(* C27: an accepted send appends the user message, then exactly one advisor *)
(* message right after it, and the loading flag then returns to false; no   *)
(* send is accepted while the flag is true.                                  *)
C27_SendAnsweredOnce ==
    /\ [](\A i \in 1 .. Len(messages) :
            messages[i].kind = "user"
            => IF i = Len(messages) THEN isLoading
               ELSE /\ messages[i + 1].kind = "reply"
                    /\ messages[i + 1].type = "bot"
                    /\ (i + 2 <= Len(messages) => messages[i + 2].kind # "reply"))
    /\ [][isLoading => ~(last'.op = "send" /\ last'.accepted)]_vars
    /\ (isLoading ~> ~isLoading)

C27_Witness ==
    /\ ~isLoading
    /\ last.op = "reply"
    /\ Len(messages) = 4
    /\ messages[3].kind = "user"
    /\ messages[4].kind = "reply"

----------------------------------------------------------------------------
(* The analytics page *)

\* the step is the end of an analysis run (try, catch and finally)
RunEnds == analysisPc # "idle" /\ analysisPc' = "idle"

(* C22: a run that fails raises the error notice, leaves the stored results *)
(* as they were and returns the analyzing flag to false; the results change *)
(* only at the end of a run that succeeds.                                  *)
C22_FailedRunKeepsResults ==
    [][ /\ RunEnds
           => /\ ~isAnalyzing'
              /\ Len(toasts') = Len(toasts) + 1
              /\ toasts'[Len(toasts')] \in {"success", "error"}
              /\ toasts'[Len(toasts')] = "error"
                     => analysisResults' = analysisResults
        /\ analysisResults' # analysisResults
           => RunEnds /\ toasts'[Len(toasts')] = "success" ]_vars

\* a failed run after one that succeeded
C22_Witness ==
    /\ toasts = <<"success", "error">>
    /\ analysisResults # NoResults
    /\ ~isAnalyzing

(* C23: the comprehensive results are the same for all user data: the       *)
(* spending prediction, the savings prediction and the insights are the     *)
(* values written in the source, whatever transactions, savings and         *)
(* portfolio the page holds.                                                *)
C23_ResultsIgnoreUserData ==
    analysisResults.analysis_type = "comprehensive"
    => /\ analysisResults.ai_insights = <<"ai_spending_insight", "ai_savings_insight">>
       /\ analysisResults.spending_prediction =
              [next_month_prediction |-> 185050, lower |-> 165025,
               upper |-> 205075, housing |-> 1200, food |-> 450,
               transportation |-> 200]
       /\ analysisResults.savings_prediction =
              [current_savings |-> 15000, monthly_contribution |-> 800,
               future_value_1_years |-> 25800, future_value_5_years |-> 65000]

C23_Witness ==
    /\ analysisResults.analysis_type = "comprehensive"
    /\ mockUserData.current_savings = 0
    /\ mockUserData.housing = -900
    /\ mockUserData.portfolio = 1

----------------------------------------------------------------------------
(* The authentication provider and the response interceptor *)

(* C29: for one original request the interceptor refreshes the token at     *)
(* most once and retries the request at most once.                          *)
C29_AtMostOneRefreshAndRetry == call.refreshes <= 1 /\ call.retries <= 1

\* the authentication state: who is logged in, and the stored tokens
AuthCells == <<user, isAuthenticated, accessToken, refreshToken>>

\* logout leaves nobody logged in and no token stored
LogoutClears ==
    authLast'.op = "logout"
    => /\ user' = Null
       /\ ~isAuthenticated'
       /\ accessToken' = NoToken
       /\ refreshToken' = NoToken

(* C30: the authentication state changes only on a successful login, on     *)
(* logout or on a failed profile fetch; a failed login and any register     *)
(* call leave it unchanged; logout ends with user null, isAuthenticated     *)
(* false and both tokens removed.                                           *)
C30_AuthChangesOnlyOnLoginLogout ==
    [][ /\ AuthCells' # AuthCells
           => \/ authLast'.op = "logout"
              \/ authLast'.caller = "login" /\ authLast'.outcome = "success"
              \/ authLast'.caller = "profile" /\ authLast'.outcome = "failure"
        /\ LogoutClears ]_vars

(* C30 as amended: the state also changes on a successful profile fetch and *)
(* when the interceptor handles a 401 (a refresh stores a new access token, *)
(* a failed refresh removes both tokens); a login that fails and a register *)
(* call never change user and isAuthenticated, and change the tokens only   *)
(* through the interceptor.                                                 *)
C30_AuthChangesOnlyOnLoginLogoutFetchRefresh ==
    [][ /\ AuthCells' # AuthCells
           => \/ authLast'.op = "logout"
              \/ authLast'.caller = "login" /\ authLast'.outcome = "success"
              \/ authLast'.caller = "profile" /\ authLast'.op \in {"settle", "refresh"}
              \/ authLast'.op = "refresh"
        /\ ( /\ authLast'.caller \in {"login", "register"}
             /\ authLast'.outcome # "success" \/ authLast'.caller = "register" )
           => /\ UNCHANGED <<user, isAuthenticated>>
              /\ authLast'.op # "refresh" => UNCHANGED <<accessToken, refreshToken>>
        /\ authLast'.op = "refresh"
           => /\ authLast'.outcome = "refreshed"
                  => UNCHANGED <<user, isAuthenticated, refreshToken>>
              /\ authLast'.outcome = "failure"
                  => accessToken' = NoToken /\ refreshToken' = NoToken
        /\ LogoutClears ]_vars

\* a login failed with nothing for the interceptor to do, on a logged-in page
C30_Witness ==
    /\ authLast = AuthRan("settle", "login", "failure")
    /\ isAuthenticated
    /\ user = Response
    /\ accessToken = "stored"
    /\ refreshToken = "stored"

====
